---- MODULE Spec2Model ----
(***************************************************************************)
(* A model of the OpenELP EchoLink proxy core (proxy.c): the lifecycle     *)
(* controller (open, start, shutdown, close), the acceptor                 *)
(* (proxy_process), the client workers (proxy_worker_func with             *)
(* proxy_worker_authorize) and the callsign authorization.                 *)
(*                                                                         *)
(* The slot relay (proxy_conn.c), the worker thread primitive (worker.c),  *)
(* the sockets (conn.c), the regex engine and the registration service are *)
(* collaborators of proxy.c; they are modelled by their interface.         *)
(***************************************************************************)
EXTENDS Integers, Sequences, FiniteSets, TLC

\* ------------------------------------------------------------------ bounds

\* Largest number of AdditionalExternalBindAddresses of a configuration.
MaxAdd == 1

\* Number of client connections the environment opens in one behaviour.
MaxConns == 2

\* Longest password of the calls of get_password_response checked alone.
MaxPassLen == 2

\* Longest run of bytes before the newline in the replies parsed alone.
MaxCallLen == 11

\* The most additional external bind addresses of a configuration whose
\* slots are laid out alone.
MaxBinds == 2

\* ------------------------------------------------------- program constants

PROXY_PASS_RES_LEN == 16

\* The null pointer; connections are numbered from 1.
NULL == 0

\* Return codes: 0, -EBUSY, -EACCES, -EINVAL, and one transport error.
OK == "0"
EBUSY == "-EBUSY"
EACCES == "-EACCES"
EINVAL == "-EINVAL"
EPIPE == "-EPIPE"
ENOMEM == "-ENOMEM"

msg_bad_pw == <<7, 0, 0, 0, 0, 1, 0, 0, 0, 1>>

msg_bad_auth == <<7, 0, 0, 0, 0, 1, 0, 0, 0, 2>>

\* Array indices of the largest configuration (C arrays are 0-based).
Index == 0 .. MaxAdd

Conns == 1 .. MaxConns

\* Thread identifiers: a worker is named by its index, the acceptor by the
\* number after the last index.
ACC == MaxAdd + 1

\* ------------------------------------------------------------- the inputs

\* Callsigns as byte strings: "W1AW" and "BAD1".
W1AW == <<87, 49, 65, 87>>

BAD1 == <<66, 65, 68, 49>>

Callsigns == {W1AW, BAD1}

\* A regular expression is modelled by the set of callsigns it matches.
Patterns == SUBSET Callsigns

\* An optional pattern or regex handle: no element (a NULL pointer) or one.
NoRe == {}

OptPatterns == {NoRe} \cup {{p} : p \in Patterns}

\* The configured password, "test".
Password == <<116, 101, 115, 116>>

\* A 32 bit nonce is written as its two 16 bit halves, <<high, low>>.
\* The value the random number generator returns in the concurrent model:
\* 0x12345678.
Nonces == {<<4660, 22136>>}

\* The nonce of a worker that has none.
NoNonce == <<0, 0>>

\* Nonces of the calls checked alone: 0, 0xA, 0x12345678, 0x80000000,
\* 0xABCDEF01, 0xFFFFFFFF.
FnNonces == {<<0, 0>>, <<0, 10>>, <<4660, 22136>>, <<32768, 0>>,
             <<43981, 61185>>, <<65535, 65535>>}

\* Password bytes of the calls checked alone: '0', 'A', the bytes around
\* and at the ends of 'a' .. 'z', and a byte that is not ASCII.
PassBytes == {48, 65, 96, 97, 122, 123, 225}

\* Bytes before the newline in the replies parsed alone: n letters, the
\* first or the last of them possibly a NUL.
FnCallBytes(n) ==
    {[j \in 1 .. n |-> 65]}
    \cup {[j \in 1 .. n |-> IF j = p THEN 0 ELSE 65] : p \in {1, n} \cap 1 .. n}

FnPasswords == UNION {[1 .. n -> PassBytes] : n \in 0 .. MaxPassLen}

\* What the regex engine does with a match: it fails (a negative errno) or
\* it decides (0).
EngineResults == {-22, 0}

\* ------------------------------------------------- authorization, as code

\* One lowercase hexadecimal digit as an ASCII byte.
HexChar(d) == IF d < 10 THEN 48 + d ELSE 87 + d

\* The 4 lowercase hex characters of a 16 bit value, high digit first.
hex16(w) == [k \in 1 .. 4 |-> HexChar((w \div (16 ^ (4 - k))) % 16)]

\* digest_to_hex32: the 8 lowercase hex characters of a 32 bit value.
digest_to_hex32(nonce) == hex16(nonce[1]) \o hex16(nonce[2])

RECURSIVE SumBytes(_)
SumBytes(data) ==
    IF data = <<>> THEN 0
    ELSE (Head(data) + 31 * SumBytes(Tail(data))) % 65536

\* digest_get: a 16 byte digest of the data. MD5 itself is the library's; the
\* model keeps that it is a function of every byte of the data and its length.
digest_get(data, len) ==
    LET sum == SumBytes(SubSeq(data, 1, len)) IN
    [j \in 1 .. PROXY_PASS_RES_LEN |-> (sum + j * (len + 7)) % 256]

pass_upper_above_a(password) ==
    [k \in 1 .. Len(password) |->
        IF password[k] > 97 /\ password[k] <= 122
        THEN password[k] - 32 ELSE password[k]]

\* The copy loop of get_password_response: a..z are folded to upper case.
pass_upper(password) ==
    [k \in 1 .. Len(password) |->
        IF password[k] >= 97 /\ password[k] <= 122
        THEN password[k] - 32 ELSE password[k]]

pass_with_nonce(nonce, password) ==
    pass_upper(password) \o digest_to_hex32(nonce)

get_password_response(nonce, password) ==
    digest_get(pass_with_nonce(nonce, password), Len(password) + 8)

\* for (idx = 0; idx < 11 && buff[idx] != '\n'; idx++);
RECURSIVE scan_newline(_, _)
scan_newline(buff, idx) ==
    IF idx < 11 /\ buff[idx + 1] # 10
    THEN scan_newline(buff, idx + 1) ELSE idx

scan_failed_above_11(nl) == nl > 11

\* if (idx >= 11) return -EINVAL;
scan_failed(nl) == nl >= 11

response_matches_but_last(response, buff, idx, j) ==
    \A n \in 1 .. (PROXY_PASS_RES_LEN - 1) : response[n] = buff[idx + n]

\* for (idx += 1, j = 0; j < PROXY_PASS_RES_LEN; idx++, j++)
\*     if (response[j] != buff[idx]) ...
RECURSIVE response_matches(_, _, _, _)
response_matches(response, buff, idx, j) ==
    IF j >= PROXY_PASS_RES_LEN THEN TRUE
    ELSE IF response[j + 1] # buff[idx + 1] THEN FALSE
    ELSE response_matches(response, buff, idx + 1, j + 1)

\* regex_is_match: 1 on a match, 0 on none, a negative errno when the engine
\* fails (engine_ret < 0).
regex_is_match(re, callsign, engine_ret) ==
    IF engine_ret < 0 THEN engine_ret
    ELSE IF callsign \in UNION re THEN 1 ELSE 0

proxy_authorize_callsign_deny_error_passes(denied, allowed, deny_ret, allow_ret) ==
    IF denied # NoRe /\ deny_ret = 1 THEN 0
    ELSE IF allowed # NoRe /\ allow_ret # 1 THEN 0
    ELSE 1

proxy_authorize_callsign_deny_ignored(denied, allowed, deny_ret, allow_ret) ==
    IF allowed # NoRe /\ allow_ret # 1 THEN 0 ELSE 1

\* proxy_authorize_callsign, given the handles and what regex_is_match
\* returns for each of them.
proxy_authorize_callsign(denied, allowed, deny_ret, allow_ret) ==
    IF denied # NoRe /\ deny_ret # 0 THEN 0
    ELSE IF allowed # NoRe /\ allow_ret # 1 THEN 0
    ELSE 1

\* What a client may send after the nonce: callsign, newline and the 16 byte
\* response, the response possibly wrong in one position; or 16 bytes
\* without a newline.
Corrupt(response, p) ==
    [j \in 1 .. Len(response) |->
        IF j = p THEN (response[j] + 1) % 256 ELSE response[j]]

\* Positions of the response a client of the concurrent model gets wrong:
\* the first (in the first read) and the last (in the second read).
BadPositions == {1, PROXY_PASS_RES_LEN}

NoNewline == [k \in 1 .. 16 |-> 65]

\* A callsign of 11 letters: its newline is the twelfth byte.
LongCallsign == [k \in 1 .. 11 |-> 65]

ClientReplies(response) ==
    {c \o <<10>> \o response : c \in Callsigns}
    \cup {c \o <<10>> \o Corrupt(response, p) :
            c \in Callsigns, p \in BadPositions}
    \cup {NoNewline, LongCallsign \o <<10>> \o response}

\* ------------------------------------------------------------------ state

VARIABLES
    conf,              \* ph->conf: add_len, calls_allowed, calls_denied
    phase,             \* what the host has called: init, opened, started, ...
    cpc,               \* where the host is inside start, shutdown or close
    closing,           \* the running shutdown was called by proxy_close
    num_clients,       \* priv->num_clients
    usable_clients,    \* priv->usable_clients
    re_calls_allowed,  \* priv->re_calls_allowed
    re_calls_denied,   \* priv->re_calls_denied
    conn_listen,       \* priv->conn_listen: closed, listening, shutdown
    readers,           \* threads holding usable_clients_mutex shared
    reg,               \* last <<slots_used, slots_total>> given to registration
    conn_client,       \* client_workers[i].conn_client
    callsign,          \* client_workers[i].callsign
    in_use,            \* clients[i]: the slot relay serves a client
    slot_client,       \* clients[i]: the client connection the slot serves
    thread,            \* worker i's thread is running (started, not joined)
    woken,             \* worker i was woken and has not yet run
    wpc,               \* worker i's position in proxy_worker_func
    wret,              \* worker i's ret
    wi,                \* worker i's loop index i
    wslot,             \* worker i's pc, as an index into clients (-1: unset)
    wnonce,            \* worker i's nonce
    response,          \* worker i's response: the expected digest
    wreply,            \* what worker i's client sends after the nonce
    idx,               \* worker i's idx in proxy_worker_authorize
    rx,                \* bytes worker i has received from its client
    tx,                \* what worker i has sent to its client in this run
    authz,             \* proxy_authorize_callsign's result in this run, or -1
    apc,               \* the acceptor's position in proxy_process
    aconn,             \* the acceptor's conn
    ai,                \* the acceptor's loop index i
    aret,              \* the acceptor's ret
    proc_ret,          \* what the last proxy_process returned
    conn_state,        \* each client connection: unused, open, shutdown, freed
    wreg,              \* worker i inside proxy_update_registration: the
                       \* <<slots_used, slots_total>> it has read, or <<>>
    creg,              \* the same for the host's call in proxy_shutdown
    call               \* the last application of a function checked alone

hostVars == <<call, conf, phase, cpc, closing, num_clients, re_calls_allowed,
              re_calls_denied, conn_listen>>

poolVars == <<usable_clients, readers, reg>>

arrayVars == <<conn_client, callsign, in_use, slot_client>>

authVars == <<wnonce, response, wreply, idx, rx, tx, authz>>

workerVars == <<thread, woken, wpc, wret, wi, wslot, authVars>>

regVars == <<wreg, creg>>

acceptorVars == <<apc, aconn, ai, aret, proc_ret>>

vars == <<hostVars, poolVars, arrayVars, workerVars, acceptorVars, conn_state,
          regVars>>

\* The configurations of the concurrent model.
Confs ==
    {[add_len |-> k, calls_allowed |-> re[1], calls_denied |-> re[2]] :
        k \in 0 .. MaxAdd, re \in {<<NoRe, NoRe>>, <<{{W1AW}}, {{BAD1}}>>}}

\* The indices of an array of n elements.
Array(n) == 0 .. (n - 1)

\* Worker locals outside a run of proxy_worker_func.
NoLocals ==
    /\ wret = [i \in Index |-> OK]
    /\ wi = [i \in Index |-> 0]
    /\ wslot = [i \in Index |-> -1]
    /\ wnonce = [i \in Index |-> NoNonce]
    /\ response = [i \in Index |-> <<>>]
    /\ wreply = [i \in Index |-> <<>>]
    /\ idx = [i \in Index |-> 0]
    /\ rx = [i \in Index |-> 0]
    /\ tx = [i \in Index |-> <<>>]
    /\ authz = [i \in Index |-> -1]

\* The state after proxy_init and proxy_load_conf: priv is zeroed.
Init ==
    /\ conf \in Confs
    /\ phase = "init"
    /\ cpc = "ready"
    /\ closing = FALSE
    /\ num_clients = 0
    /\ usable_clients = 0
    /\ re_calls_allowed = NoRe
    /\ re_calls_denied = NoRe
    /\ conn_listen = "closed"
    /\ readers = {}
    /\ reg = <<0, 0>>
    /\ conn_client = <<>>
    /\ callsign = <<>>
    /\ in_use = <<>>
    /\ slot_client = <<>>
    /\ thread = [i \in Index |-> FALSE]
    /\ woken = [i \in Index |-> FALSE]
    /\ wpc = [i \in Index |-> "idle"]
    /\ NoLocals
    /\ apc = "idle"
    /\ aconn = NULL
    /\ ai = 0
    /\ aret = OK
    /\ proc_ret = OK
    /\ conn_state = [c \in Conns |-> "unused"]
    /\ wreg = [i \in Index |-> <<>>]
    /\ creg = <<>>
    /\ call = [fn |-> "none"]

\* ------------------------------------------------- the registration hook

\* proxy_update_registration: count the slots in use, read usable_clients
\* under the shared lock, hand both to the registration service.
slots_used(inuse) == Cardinality({i \in DOMAIN inuse : inuse[i]})

proxy_update_registration(inuse, usable) == <<slots_used(inuse), usable>>

\* ------------------------------------------------------------- lifecycle

\* The host is between lifecycle calls. proxy_shutdown may also be called
\* from another thread (a signal handler) while the host sits in
\* proxy_process; open, start and close are the host's own calls.
HostReady == cpc = "ready" /\ apc = "idle"

\* The steps at which proxy_open can fail.
OpenSteps == {"none", "clients", "workers", "log", "allow", "deny_malloc",
              "deny", "conn_init", "worker_init", "listen"}

\* proxy_open, failing at step fail ("none": success).
proxy_open(fail) ==
    /\ phase = "init"
    /\ HostReady
    /\ fail \in {"allow"} => conf.calls_allowed # NoRe
    /\ fail \in {"deny"} => conf.calls_denied # NoRe
    /\ fail = "deny_malloc" => conf.calls_denied # NoRe /\ re_calls_denied = NoRe
    /\ IF fail = "clients"
       THEN \* return -ENOMEM right after num_clients was set
            /\ num_clients' = 1 + conf.add_len
            /\ UNCHANGED <<re_calls_allowed, re_calls_denied>>
       ELSE /\ num_clients' = IF fail = "none" THEN 1 + conf.add_len ELSE 0
            /\ re_calls_allowed' =
                   IF fail = "none" THEN conf.calls_allowed ELSE NoRe
            /\ re_calls_denied' =
                   IF fail \in {"workers", "log", "allow", "deny_malloc"}
                   THEN re_calls_denied
                   ELSE conf.calls_denied
    /\ IF fail = "none"
       THEN /\ phase' = "opened"
            /\ conn_listen' = "listening"
            /\ conn_client' = [i \in Array(1 + conf.add_len) |-> NULL]
            /\ callsign' = [i \in Array(1 + conf.add_len) |-> <<>>]
            /\ in_use' = [i \in Array(1 + conf.add_len) |-> FALSE]
            /\ slot_client' = [i \in Array(1 + conf.add_len) |-> NULL]
       ELSE UNCHANGED <<phase, conn_listen, arrayVars>>
    /\ UNCHANGED <<call, conf, cpc, closing, poolVars, workerVars, acceptorVars,
                   conn_state>>
    /\ UNCHANGED regVars

\* The steps at which proxy_start can fail.
StartSteps == {"none", "conn_start", "worker_start", "registration"}

\* priv->usable_clients = priv->num_clients;
start_usable_off_by_one == num_clients + 1

start_usable == num_clients

\* proxy_start, failing at step fail ("none": success). A failure joins the
\* workers that were started and stops the slot relays.
proxy_start(fail) ==
    /\ phase = "opened"
    /\ HostReady
    /\ IF fail \in {"conn_start", "worker_start"}
       THEN UNCHANGED <<poolVars, thread>>
       ELSE /\ readers = {}
            /\ usable_clients' = start_usable
            /\ reg' = proxy_update_registration(in_use, start_usable)
            /\ thread' = [i \in Index |-> fail = "none" /\ i < num_clients]
            /\ UNCHANGED readers
    /\ phase' = IF fail = "none" THEN "started" ELSE "start_failed"
    /\ UNCHANGED <<call, conf, cpc, closing, num_clients, re_calls_allowed,
                   re_calls_denied, conn_listen, arrayVars, woken, wpc, wret,
                   wi, wslot, authVars, acceptorVars,
                   conn_state>>
    /\ UNCHANGED regVars

\* proxy_shutdown is entered: by the host or from another thread. (A second
\* shutdown of a proxy that is down repeats the first and is left out.)
ShutdownCall ==
    /\ phase \in {"opened", "started", "start_failed"}
    /\ cpc = "ready"
    /\ cpc' = "sd_write"
    /\ closing' = FALSE
    /\ UNCHANGED <<call, conf, phase, num_clients, re_calls_allowed, re_calls_denied,
                   conn_listen, poolVars, arrayVars, workerVars, acceptorVars,
                   conn_state>>
    /\ UNCHANGED regVars

\* proxy_close is entered: registration_service_stop, then proxy_shutdown.
CloseCall ==
    /\ phase \in {"opened", "started", "start_failed", "down"}
    /\ HostReady
    /\ cpc' = "sd_write"
    /\ closing' = TRUE
    /\ UNCHANGED <<call, conf, phase, num_clients, re_calls_allowed, re_calls_denied,
                   conn_listen, poolVars, arrayVars, workerVars, acceptorVars,
                   conn_state>>
    /\ UNCHANGED regVars

ShutdownWrite_unlocked ==
    /\ cpc = "sd_write"
    /\ usable_clients' = 0
    /\ cpc' = "sd_update"
    /\ UNCHANGED <<call, conf, phase, closing, num_clients, re_calls_allowed,
                   re_calls_denied, conn_listen, readers, reg, arrayVars,
                   workerVars, acceptorVars, conn_state>>
    /\ UNCHANGED regVars

\* proxy_shutdown: usable_clients = 0 under the exclusive lock, which is
\* granted when no thread holds the lock shared.
ShutdownWrite ==
    /\ cpc = "sd_write"
    /\ readers = {}
    /\ usable_clients' = 0
    /\ cpc' = "sd_update"
    /\ UNCHANGED <<call, conf, phase, closing, num_clients, re_calls_allowed,
                   re_calls_denied, conn_listen, readers, reg, arrayVars,
                   workerVars, acceptorVars, conn_state>>
    /\ UNCHANGED regVars

\* proxy_shutdown: proxy_update_registration(ph), its first part: the slots
\* in use are counted and usable_clients is read.
ShutdownCount ==
    /\ cpc = "sd_update"
    /\ creg = <<>>
    /\ creg' = proxy_update_registration(in_use, usable_clients)
    /\ UNCHANGED <<hostVars, poolVars, arrayVars, workerVars, acceptorVars,
                   conn_state, wreg>>

\* proxy_shutdown: proxy_update_registration(ph), its second part:
\* registration_service_update with the two values read.
ShutdownUpdate ==
    /\ cpc = "sd_update"
    /\ creg # <<>>
    /\ reg' = creg
    /\ creg' = <<>>
    /\ cpc' = "sd_listen"
    /\ UNCHANGED <<call, conf, phase, closing, num_clients, re_calls_allowed,
                   re_calls_denied, conn_listen, usable_clients, readers,
                   arrayVars, workerVars, acceptorVars, conn_state, wreg>>

\* proxy_shutdown: conn_shutdown(&priv->conn_listen), and return.
ShutdownListen ==
    /\ cpc = "sd_listen"
    /\ conn_listen' = IF conn_listen = "listening" THEN "shutdown"
                      ELSE conn_listen
    /\ phase' = "down"
    /\ cpc' = IF closing THEN "drop" ELSE "ready"
    /\ UNCHANGED <<call, conf, closing, num_clients, re_calls_allowed,
                   re_calls_denied, poolVars, arrayVars, workerVars,
                   acceptorVars, conn_state>>
    /\ UNCHANGED regVars

\* proxy_conn_drop of every slot: the connection of a slot's client is shut
\* down, which ends the session the slot serves.
proxy_drop ==
    /\ cpc = "drop"
    /\ conn_state' =
           [c \in Conns |->
               IF /\ conn_state[c] = "open"
                  /\ \E i \in DOMAIN slot_client : slot_client[i] = c
               THEN "shutdown" ELSE conn_state[c]]
    /\ cpc' = "join"
    /\ UNCHANGED <<call, conf, phase, closing, num_clients, re_calls_allowed,
                   re_calls_denied, conn_listen, poolVars, arrayVars,
                   workerVars, acceptorVars>>
    /\ UNCHANGED regVars

\* worker_free joins the worker's thread: it returns once the thread is not
\* inside proxy_worker_func.
Joinable(i) == thread[i] => wpc[i] = "idle" /\ ~woken[i]

\* proxy_close after proxy_drop: every worker and slot is freed, the arrays
\* are freed, the listener and the log are closed.
CloseFree ==
    /\ cpc = "join"
    /\ \A i \in Array(num_clients) : Joinable(i)
    /\ thread' = [i \in Index |-> FALSE]
    /\ woken' = [i \in Index |-> FALSE]
    /\ conn_client' = <<>>
    /\ callsign' = <<>>
    /\ in_use' = <<>>
    /\ slot_client' = <<>>
    /\ num_clients' = 0
    /\ conn_listen' = "closed"
    /\ phase' = "init"
    /\ cpc' = "ready"
    /\ closing' = FALSE
    /\ UNCHANGED <<call, conf, re_calls_allowed, re_calls_denied, poolVars, wpc,
                   wret, wi, wslot, authVars,
                   acceptorVars, conn_state>>
    /\ UNCHANGED regVars

\* ---------------------------------------------------------- the acceptor

proxy_worker_accept_overwrite(i, conn, wake) ==
    IF wake = OK
    THEN [ret |-> OK, conn_client |-> conn, woken |-> TRUE]
    ELSE [ret |-> wake, conn_client |-> NULL, woken |-> woken[i]]

\* proxy_worker_accept(&client_workers[i], conn), where worker_wake returns
\* wake: the value returned and the worker's fields when it returns. The
\* whole body runs under the worker's mutex.
proxy_worker_accept(i, conn, wake) ==
    IF conn_client[i] # NULL
    THEN [ret |-> EBUSY, conn_client |-> conn_client[i], woken |-> woken[i]]
    ELSE IF wake = OK
    THEN [ret |-> OK, conn_client |-> conn, woken |-> TRUE]
    ELSE [ret |-> wake, conn_client |-> NULL, woken |-> woken[i]]

\* The connection that the next successful conn_accept returns.
NewConn == CHOOSE c \in Conns :
               /\ conn_state[c] = "unused"
               /\ \A d \in Conns : conn_state[d] = "unused" => c <= d

\* proxy_process is entered: the container is allocated and initialized,
\* and the acceptor blocks in conn_accept. The host runs its process loop
\* after a successful proxy_start, and may still be in it after a shutdown.
ProcessCall ==
    /\ apc = "idle"
    /\ phase \in {"started", "down"}
    /\ cpc = "ready" \/ ~closing
    /\ apc' = "accept"
    /\ aret' = OK
    /\ UNCHANGED <<hostVars, poolVars, arrayVars, workerVars, aconn, ai,
                   proc_ret, conn_state>>
    /\ UNCHANGED regVars

\* conn_accept returns a client's connection.
AcceptConn ==
    /\ apc = "accept"
    /\ conn_listen = "listening"
    /\ \E c \in Conns : conn_state[c] = "unused"
    /\ aconn' = NewConn
    /\ conn_state' = [conn_state EXCEPT ![NewConn] = "open"]
    /\ aret' = OK
    /\ apc' = "probe_lock"
    /\ UNCHANGED <<hostVars, poolVars, arrayVars, workerVars, ai, proc_ret>>
    /\ UNCHANGED regVars

\* conn_accept fails, the listener having been shut down: the container is
\* freed and the error returned.
AcceptError ==
    /\ apc = "accept"
    /\ conn_listen # "listening"
    /\ apc' = "idle"
    /\ proc_ret' = EPIPE
    /\ UNCHANGED <<hostVars, poolVars, arrayVars, workerVars, aconn, ai, aret,
                   conn_state>>
    /\ UNCHANGED regVars

\* mutex_lock_shared(&priv->usable_clients_mutex); i = 0
ProbeLock ==
    /\ apc = "probe_lock"
    /\ readers' = readers \cup {ACC}
    /\ ai' = 0
    /\ apc' = "probe_chk"
    /\ UNCHANGED <<hostVars, usable_clients, reg, arrayVars, workerVars,
                   aconn, aret, proc_ret, conn_state>>
    /\ UNCHANGED regVars

\* proxy_process after the loop and the unlock, with ret as the loop left
\* it: the value returned and whether the connection is closed and freed.
process_exit(ret) ==
    IF ret = EBUSY THEN [ret |-> OK, free |-> TRUE]
    ELSE IF ret # OK THEN [ret |-> ret, free |-> TRUE]
    ELSE [ret |-> OK, free |-> FALSE]

\* The acceptor leaves the loop with ret: unlock, then the exit paths.
ProbeLeave(ret) ==
    /\ readers' = readers \ {ACC}
    /\ aret' = OK
    /\ proc_ret' = process_exit(ret).ret
    /\ conn_state' = IF process_exit(ret).free
                     THEN [conn_state EXCEPT ![aconn] = "freed"]
                     ELSE conn_state
    /\ aconn' = NULL
    /\ ai' = 0
    /\ apc' = "idle"

\* The loop condition i < priv->usable_clients.
ProbeChk ==
    /\ apc = "probe_chk"
    /\ IF ai < usable_clients
       THEN /\ apc' = "probe_call"
            /\ UNCHANGED <<readers, aconn, ai, aret, proc_ret, conn_state>>
       ELSE ProbeLeave(aret)
    /\ UNCHANGED <<hostVars, usable_clients, reg, arrayVars, workerVars>>
    /\ UNCHANGED regVars

\* ret = proxy_worker_accept(&priv->client_workers[i], conn); break unless
\* it is -EBUSY.
ProbeCall(wake) ==
    /\ apc = "probe_call"
    /\ LET r == proxy_worker_accept(ai, aconn, wake) IN
       /\ conn_client' = [conn_client EXCEPT ![ai] = r.conn_client]
       /\ woken' = [woken EXCEPT ![ai] = r.woken]
       /\ IF r.ret = EBUSY
          THEN /\ ai' = ai + 1
               /\ aret' = EBUSY
               /\ apc' = "probe_chk"
               /\ UNCHANGED <<readers, aconn, proc_ret, conn_state>>
          ELSE ProbeLeave(r.ret)
    /\ UNCHANGED <<hostVars, usable_clients, reg, callsign, in_use,
                   slot_client, thread, wpc, wret, wi, wslot, authVars>>
    /\ UNCHANGED regVars

\* ------------------------------------------------------------ the workers

\* The worker's thread takes up a wake: proxy_worker_func is called.
WorkerWake(i) ==
    /\ thread[i]
    /\ wpc[i] = "idle"
    /\ woken[i]
    /\ woken' = [woken EXCEPT ![i] = FALSE]
    /\ wpc' = [wpc EXCEPT ![i] = "check"]
    /\ UNCHANGED <<hostVars, poolVars, arrayVars, thread, wret, wi, wslot,
                   authVars, acceptorVars, conn_state>>
    /\ UNCHANGED regVars

\* proxy_worker_func: under the worker's mutex, return if no connection was
\* given.
WorkerCheck(i) ==
    /\ wpc[i] = "check"
    /\ wpc' = [wpc EXCEPT ![i] = IF conn_client[i] = NULL THEN "idle"
                                 ELSE "auth_send"]
    /\ UNCHANGED <<hostVars, poolVars, arrayVars, thread, woken, wret, wi,
                   wslot, authVars, acceptorVars,
                   conn_state>>
    /\ UNCHANGED regVars

\* proxy_worker_authorize: get_nonce, get_password_response, and the send of
\* the 8 nonce characters; err is the first error of the three, or OK.
AuthSend(i, nonce, err) ==
    /\ wpc[i] = "auth_send"
    /\ IF err = OK
       THEN /\ wnonce' = [wnonce EXCEPT ![i] = nonce]
            /\ response' = [response EXCEPT ![i] =
                                get_password_response(nonce, Password)]
            /\ tx' = [tx EXCEPT ![i] = Append(@, digest_to_hex32(nonce))]
            /\ wpc' = [wpc EXCEPT ![i] = "auth_recv"]
            /\ UNCHANGED wret
       ELSE /\ wret' = [wret EXCEPT ![i] = err]
            /\ wpc' = [wpc EXCEPT ![i] = "auth_fail"]
            /\ UNCHANGED <<wnonce, response, tx>>
    /\ UNCHANGED <<hostVars, poolVars, arrayVars, thread, woken, wi, wslot,
                   wreply, idx, rx, authz, acceptorVars, conn_state>>
    /\ UNCHANGED regVars

\* buff after the first conn_recv of 16 bytes.
buff_first(reply) == SubSeq(reply, 1, 16)

\* buff after buff[idx] = '\0' and the second conn_recv of idx + 1 bytes into
\* &buff[16].
buff_second(reply, nl) ==
    [k \in 1 .. (16 + nl + 1) |->
        IF k = nl + 1 THEN 0 ELSE reply[k]]

\* A C string: the bytes before the first NUL.
RECURSIVE c_str(_)
c_str(buff) ==
    IF buff = <<>> \/ Head(buff) = 0 THEN <<>>
    ELSE <<Head(buff)>> \o c_str(Tail(buff))

\* buff[idx] = '\0'; strcpy(pw->callsign, (char *)buff);
callsign_field(buff, nl) == c_str([buff EXCEPT ![nl + 1] = 0])

\* proxy_worker_authorize: the first conn_recv and the scan for the newline.
\* The client sends reply, or the connection fails with err.
AuthRecv(i, err) ==
    /\ wpc[i] = "auth_recv"
    /\ IF err # OK
       THEN /\ wret' = [wret EXCEPT ![i] = err]
            /\ wpc' = [wpc EXCEPT ![i] = "auth_fail"]
            /\ UNCHANGED <<wreply, rx, idx, callsign>>
       ELSE \E reply \in ClientReplies(response[i]) :
            /\ wreply' = [wreply EXCEPT ![i] = reply]
            /\ rx' = [rx EXCEPT ![i] = 16]
            /\ LET k == scan_newline(buff_first(reply), 0) IN
               /\ idx' = [idx EXCEPT ![i] = k]
               /\ IF scan_failed(k)
                  THEN /\ wret' = [wret EXCEPT ![i] = EINVAL]
                       /\ wpc' = [wpc EXCEPT ![i] = "auth_fail"]
                       /\ UNCHANGED callsign
                  ELSE /\ callsign' = [callsign EXCEPT ![i] =
                                          callsign_field(buff_first(reply), k)]
                       /\ wpc' = [wpc EXCEPT ![i] = "auth_recv2"]
                       /\ UNCHANGED wret
    /\ UNCHANGED <<hostVars, poolVars, conn_client, in_use, slot_client,
                   thread, woken, wi, wslot, wnonce, response, tx, authz,
                   acceptorVars, conn_state>>
    /\ UNCHANGED regVars

\* What conn_send of a failure frame leaves in ret: return ret < 0 ? ret :
\* -EACCES;
send_or_eacces(send) == IF send # OK THEN send ELSE EACCES

\* proxy_worker_authorize after the second conn_recv: the comparison of the
\* response comes first, then proxy_authorize_callsign; matches is the result
\* of the comparison, allow that of proxy_authorize_callsign, send that of the
\* conn_send of a failure frame. The frame sent (none: <<>>), the value
\* returned, and the result of the callsign check if it was made (else -1).
auth_outcome_callsign_first(matches, allow, send) ==
    IF allow # 1
    THEN [frame |-> msg_bad_auth, ret |-> send_or_eacces(send),
          authz |-> allow]
    ELSE IF ~matches
    THEN [frame |-> msg_bad_pw, ret |-> send_or_eacces(send), authz |-> allow]
    ELSE [frame |-> <<>>, ret |-> OK, authz |-> allow]

auth_outcome_same_frame(matches, allow, send) ==
    IF ~matches
    THEN [frame |-> msg_bad_pw, ret |-> send_or_eacces(send), authz |-> -1]
    ELSE IF allow # 1
    THEN [frame |-> msg_bad_pw, ret |-> send_or_eacces(send),
          authz |-> allow]
    ELSE [frame |-> <<>>, ret |-> OK, authz |-> allow]

auth_outcome(matches, allow, send) ==
    IF ~matches
    THEN [frame |-> msg_bad_pw, ret |-> send_or_eacces(send), authz |-> -1]
    ELSE IF allow # 1
    THEN [frame |-> msg_bad_auth, ret |-> send_or_eacces(send),
          authz |-> allow]
    ELSE [frame |-> <<>>, ret |-> OK, authz |-> allow]

\* proxy_worker_authorize from the second conn_recv on. err is the result of
\* the conn_recv, send that of the conn_send of a failure frame, deny_engine
\* and allow_engine what the regex engine does with the two matches. The
\* locals of proxy_worker_authorize are dead when it returns.
AuthRecv2(i, err, send, deny_engine, allow_engine) ==
    /\ wpc[i] = "auth_recv2"
    /\ IF err # OK
       THEN /\ wret' = [wret EXCEPT ![i] = err]
            /\ wpc' = [wpc EXCEPT ![i] = "auth_fail"]
            /\ UNCHANGED <<rx, tx, authz, wnonce, response, wreply, idx>>
       ELSE LET k == idx[i]
                buff == buff_second(wreply[i], k)
                allow == proxy_authorize_callsign(
                             re_calls_denied, re_calls_allowed,
                             regex_is_match(re_calls_denied, callsign[i],
                                            deny_engine),
                             regex_is_match(re_calls_allowed, callsign[i],
                                            allow_engine))
                out == auth_outcome(
                           response_matches(response[i], buff, k + 1, 0),
                           allow, send)
            IN
            /\ rx' = [rx EXCEPT ![i] = 16 + k + 1]
            /\ wnonce' = [wnonce EXCEPT ![i] = NoNonce]
            /\ response' = [response EXCEPT ![i] = <<>>]
            /\ wreply' = [wreply EXCEPT ![i] = <<>>]
            /\ idx' = [idx EXCEPT ![i] = 0]
            /\ authz' = [authz EXCEPT ![i] = out.authz]
            /\ wret' = [wret EXCEPT ![i] = out.ret]
            /\ tx' = [tx EXCEPT ![i] =
                         IF out.frame = <<>> THEN @ ELSE Append(@, out.frame)]
            /\ wpc' = [wpc EXCEPT ![i] = IF out.ret = OK THEN "update"
                                         ELSE "auth_fail"]
    /\ UNCHANGED <<hostVars, poolVars, arrayVars, thread, woken, wi, wslot,
                   acceptorVars, conn_state>>
    /\ UNCHANGED regVars

\* The worker's locals are dead once proxy_worker_func has returned, and so
\* is pw->callsign: every run writes it before it reads it.
Return(i) ==
    /\ wpc' = [wpc EXCEPT ![i] = "idle"]
    /\ callsign' = [callsign EXCEPT ![i] = <<>>]
    /\ wret' = [wret EXCEPT ![i] = OK]
    /\ wi' = [wi EXCEPT ![i] = 0]
    /\ wslot' = [wslot EXCEPT ![i] = -1]
    /\ wnonce' = [wnonce EXCEPT ![i] = NoNonce]
    /\ response' = [response EXCEPT ![i] = <<>>]
    /\ wreply' = [wreply EXCEPT ![i] = <<>>]
    /\ idx' = [idx EXCEPT ![i] = 0]
    /\ rx' = [rx EXCEPT ![i] = 0]
    /\ tx' = [tx EXCEPT ![i] = <<>>]
    /\ authz' = [authz EXCEPT ![i] = -1]

FreeClient_keeps_pointer(i) ==
    /\ conn_state' = [conn_state EXCEPT ![conn_client[i]] = "freed"]
    /\ conn_client' = conn_client

\* conn_free(pw->conn_client); free(pw->conn_client); pw->conn_client = NULL;
\* under the worker's mutex.
FreeClient(i) ==
    /\ conn_state' = [conn_state EXCEPT ![conn_client[i]] = "freed"]
    /\ conn_client' = [conn_client EXCEPT ![i] = NULL]

\* proxy_worker_func when proxy_worker_authorize failed: log, free the
\* connection, return.
AuthFail(i) ==
    /\ wpc[i] = "auth_fail"
    /\ FreeClient(i)
    /\ Return(i)
    /\ UNCHANGED <<hostVars, poolVars, in_use, slot_client, thread, woken,
                   acceptorVars>>
    /\ UNCHANGED regVars

\* The first part of a worker's proxy_update_registration(pw->ph), after
\* the authorization or at the exit: the slots in use are counted and
\* usable_clients is read.
WorkerCount(i) ==
    /\ wpc[i] \in {"update", "update_exit"}
    /\ wreg[i] = <<>>
    /\ wreg' = [wreg EXCEPT
                   ![i] = proxy_update_registration(in_use, usable_clients)]
    /\ UNCHANGED <<hostVars, poolVars, arrayVars, workerVars, acceptorVars,
                   conn_state, creg>>

\* proxy_worker_func after a successful authorization: the second part of
\* proxy_update_registration(pw->ph), registration_service_update with the
\* two values read.
WorkerUpdate(i) ==
    /\ wpc[i] = "update"
    /\ wreg[i] # <<>>
    /\ reg' = wreg[i]
    /\ wreg' = [wreg EXCEPT ![i] = <<>>]
    /\ wpc' = [wpc EXCEPT ![i] = "search_lock"]
    /\ UNCHANGED <<hostVars, usable_clients, readers, arrayVars, thread,
                   woken, wret, wi, wslot, authVars, acceptorVars,
                   conn_state, creg>>

\* mutex_lock_shared(&priv->usable_clients_mutex); i = 0
SearchLock(i) ==
    /\ wpc[i] = "search_lock"
    /\ readers' = readers \cup {i}
    /\ wi' = [wi EXCEPT ![i] = 0]
    /\ wpc' = [wpc EXCEPT ![i] = "search_chk"]
    /\ UNCHANGED <<hostVars, usable_clients, reg, arrayVars, thread, woken,
                   wret, wslot, authVars, acceptorVars, conn_state>>
    /\ UNCHANGED regVars

\* proxy_conn_accept(&clients[s], conn, callsign): -EBUSY when the slot
\* serves a client, else the slot takes the connection (res = OK) or fails
\* with res.
proxy_conn_accept(s, conn, res) ==
    IF in_use[s]
    THEN [ret |-> EBUSY, in_use |-> TRUE, slot_client |-> slot_client[s]]
    ELSE IF res = OK
    THEN [ret |-> OK, in_use |-> TRUE, slot_client |-> conn]
    ELSE [ret |-> res, in_use |-> FALSE, slot_client |-> slot_client[s]]

\* proxy_worker_func after the slot search and the unlock, with ret and i as
\* the loop left them: on ret < 0 to the exit, else pc = &priv->clients[i].
SearchLeave(i, ret) ==
    /\ readers' = readers \ {i}
    /\ wret' = [wret EXCEPT ![i] = ret]
    /\ wi' = [wi EXCEPT ![i] = 0]
    /\ IF ret # OK
       THEN /\ wpc' = [wpc EXCEPT ![i] = "exit"]
            /\ UNCHANGED wslot
       ELSE /\ wpc' = [wpc EXCEPT ![i] = "process"]
            /\ wslot' = [wslot EXCEPT ![i] = wi[i]]

\* The loop condition i < priv->usable_clients.
SearchChk(i) ==
    /\ wpc[i] = "search_chk"
    /\ IF wi[i] < usable_clients
       THEN /\ wpc' = [wpc EXCEPT ![i] = "search_call"]
            /\ UNCHANGED <<readers, wret, wi, wslot>>
       ELSE SearchLeave(i, wret[i])
    /\ UNCHANGED <<hostVars, usable_clients, reg, arrayVars, thread, woken,
                   authVars, acceptorVars, conn_state>>
    /\ UNCHANGED regVars

\* ret = proxy_conn_accept(&priv->clients[i], ...); break unless -EBUSY.
SearchCall(i, res) ==
    /\ wpc[i] = "search_call"
    /\ LET r == proxy_conn_accept(wi[i], conn_client[i], res) IN
       /\ in_use' = [in_use EXCEPT ![wi[i]] = r.in_use]
       /\ slot_client' = [slot_client EXCEPT ![wi[i]] = r.slot_client]
       /\ IF r.ret = EBUSY
          THEN /\ wi' = [wi EXCEPT ![i] = @ + 1]
               /\ wret' = [wret EXCEPT ![i] = EBUSY]
               /\ wpc' = [wpc EXCEPT ![i] = "search_chk"]
               /\ UNCHANGED <<readers, wslot>>
          ELSE SearchLeave(i, r.ret)
    /\ UNCHANGED <<hostVars, usable_clients, reg, conn_client, callsign,
                   thread, woken, authVars, acceptorVars, conn_state>>
    /\ UNCHANGED regVars

ProcessClientGone_skips_finish(i) ==
    /\ wpc[i] = "process"
    /\ wpc' = [wpc EXCEPT ![i] = "exit"]
    /\ UNCHANGED <<hostVars, poolVars, arrayVars, thread, woken, wret, wi,
                   wslot, authVars, acceptorVars, conn_state>>
    /\ UNCHANGED regVars

\* The relay loop ends because the client went away: proxy_conn_process
\* returns a negative value.
ProcessClientGone(i) ==
    /\ wpc[i] = "process"
    /\ wpc' = [wpc EXCEPT ![i] = "finish"]
    /\ UNCHANGED <<hostVars, poolVars, arrayVars, thread, woken, wret, wi,
                   wslot, authVars, acceptorVars, conn_state>>
    /\ UNCHANGED regVars

\* The relay loop ends because the slot has no connection to read from,
\* or the connection it serves was shut down by proxy_conn_drop.
ProcessDropped(i) ==
    /\ wpc[i] = "process"
    /\ IF slot_client[wslot[i]] = NULL THEN TRUE
       ELSE conn_state[slot_client[wslot[i]]] = "shutdown"
    /\ wpc' = [wpc EXCEPT ![i] = "finish"]
    /\ UNCHANGED <<hostVars, poolVars, arrayVars, thread, woken, wret, wi,
                   wslot, authVars, acceptorVars, conn_state>>
    /\ UNCHANGED regVars

proxy_conn_finish_keeps_slot(i) ==
    /\ wpc[i] = "finish"
    /\ wpc' = [wpc EXCEPT ![i] = "exit"]
    /\ UNCHANGED <<hostVars, poolVars, arrayVars, thread, woken, wret, wi,
                   wslot, authVars, acceptorVars, conn_state>>
    /\ UNCHANGED regVars

\* proxy_conn_finish(pc): the slot ends its session and is free again.
proxy_conn_finish(i) ==
    /\ wpc[i] = "finish"
    /\ in_use' = [in_use EXCEPT ![wslot[i]] = FALSE]
    /\ slot_client' = [slot_client EXCEPT ![wslot[i]] = NULL]
    /\ wpc' = [wpc EXCEPT ![i] = "exit"]
    /\ UNCHANGED <<hostVars, poolVars, conn_client, callsign, thread, woken,
                   wret, wi, wslot, authVars, acceptorVars, conn_state>>
    /\ UNCHANGED regVars

\* proxy_worker_func_exit: free the connection under the worker's mutex.
WorkerExit(i) ==
    /\ wpc[i] = "exit"
    /\ FreeClient(i)
    /\ wpc' = [wpc EXCEPT ![i] = "update_exit"]
    /\ UNCHANGED <<hostVars, poolVars, callsign, in_use, slot_client, thread,
                   woken, wret, wi, wslot, authVars, acceptorVars>>
    /\ UNCHANGED regVars

\* The second part of proxy_update_registration(pw->ph) at the exit:
\* registration_service_update with the two values read; and
\* proxy_worker_func returns.
WorkerReturn(i) ==
    /\ wpc[i] = "update_exit"
    /\ wreg[i] # <<>>
    /\ reg' = wreg[i]
    /\ wreg' = [wreg EXCEPT ![i] = <<>>]
    /\ Return(i)
    /\ UNCHANGED <<hostVars, usable_clients, readers, conn_client, in_use,
                   slot_client, thread, woken, acceptorVars, conn_state,
                   creg>>

\* ------------------------------------------------------ the specification

Next ==
    \/ \E fail \in OpenSteps : proxy_open(fail)
    \/ \E fail \in StartSteps : proxy_start(fail)
    \/ ShutdownCall
    \/ CloseCall
    \/ ShutdownWrite
    \/ ShutdownCount
    \/ ShutdownUpdate
    \/ ShutdownListen
    \/ proxy_drop
    \/ CloseFree
    \/ ProcessCall
    \/ AcceptConn
    \/ AcceptError
    \/ ProbeLock
    \/ ProbeChk
    \/ \E wake \in {OK, EPIPE} : ProbeCall(wake)
    \/ \E i \in Index : WorkerWake(i)
    \/ \E i \in Index : WorkerCheck(i)
    \/ \E i \in Index, nonce \in Nonces, err \in {OK, EPIPE} :
           AuthSend(i, nonce, err)
    \/ \E i \in Index, err \in {OK, EPIPE} : AuthRecv(i, err)
    \/ \E i \in Index, err \in {OK, EPIPE}, send \in {OK, EPIPE},
          deny_engine \in EngineResults, allow_engine \in EngineResults :
           AuthRecv2(i, err, send, deny_engine, allow_engine)
    \/ \E i \in Index : AuthFail(i)
    \/ \E i \in Index : WorkerCount(i)
    \/ \E i \in Index : WorkerUpdate(i)
    \/ \E i \in Index : SearchLock(i)
    \/ \E i \in Index : SearchChk(i)
    \/ \E i \in Index, res \in {OK, ENOMEM} : SearchCall(i, res)
    \/ \E i \in Index : ProcessClientGone(i)
    \/ \E i \in Index : ProcessDropped(i)
    \/ \E i \in Index : proxy_conn_finish(i)
    \/ \E i \in Index : WorkerExit(i)
    \/ \E i \in Index : WorkerReturn(i)

Spec == Init /\ [][Next]_vars

\* The threads are scheduled fairly: a step of the host inside shutdown or
\* close, of the acceptor or of a worker is taken if it stays possible. No
\* fairness for what the host decides to call, nor for what a client does:
\* connect, reply to the nonce, go away.
Fairness ==
    /\ WF_vars(ShutdownWrite)
    /\ WF_vars(ShutdownCount)
    /\ WF_vars(ShutdownUpdate)
    /\ WF_vars(ShutdownListen)
    /\ WF_vars(proxy_drop)
    /\ WF_vars(CloseFree)
    /\ WF_vars(AcceptError)
    /\ WF_vars(ProbeLock)
    /\ WF_vars(ProbeChk)
    /\ WF_vars(\E wake \in {OK, EPIPE} : ProbeCall(wake))
    /\ \A i \in Index :
           /\ WF_vars(WorkerWake(i))
           /\ WF_vars(WorkerCheck(i))
           /\ WF_vars(\E nonce \in Nonces, err \in {OK, EPIPE} :
                          AuthSend(i, nonce, err))
           /\ WF_vars(AuthFail(i))
           /\ WF_vars(WorkerCount(i))
           /\ WF_vars(WorkerUpdate(i))
           /\ WF_vars(SearchLock(i))
           /\ WF_vars(SearchChk(i))
           /\ WF_vars(\E res \in {OK, ENOMEM} : SearchCall(i, res))
           /\ WF_vars(ProcessDropped(i))
           /\ WF_vars(proxy_conn_finish(i))
           /\ WF_vars(WorkerExit(i))
           /\ WF_vars(WorkerReturn(i))

FairSpec == Init /\ [][Next]_vars /\ Fairness

\* ------------------------------------------- functions, checked alone

\* proxy_authorize_callsign is applied to a callsign, with any pair of
\* handles and whatever the regex engine does with the two matches.
AuthorizeCallsign(denied, allowed, c, deny_engine, allow_engine) ==
    /\ call.fn = "none"
    /\ call' = [fn |-> "proxy_authorize_callsign",
                denied |-> denied, allowed |-> allowed, callsign |-> c,
                deny_engine |-> deny_engine, allow_engine |-> allow_engine,
                ret |-> proxy_authorize_callsign(
                            denied, allowed,
                            regex_is_match(denied, c, deny_engine),
                            regex_is_match(allowed, c, allow_engine))]
    /\ UNCHANGED <<conf, phase, cpc, closing, num_clients, re_calls_allowed,
                   re_calls_denied, conn_listen, poolVars, arrayVars,
                   workerVars, acceptorVars, conn_state>>
    /\ UNCHANGED regVars

\* What the function specification leaves alone: everything but call.
fnUnchanged == <<conf, phase, cpc, closing, num_clients, re_calls_allowed,
                 re_calls_denied, conn_listen, poolVars, arrayVars,
                 workerVars, acceptorVars, conn_state, regVars>>

\* The start of proxy_worker_authorize for one nonce and password: the
\* nonce characters it sends, the bytes get_password_response hands to
\* digest_get with their length, and the expected response.
PasswordResponse(nonce, password) ==
    /\ call.fn = "none"
    /\ call' = [fn |-> "get_password_response",
                nonce |-> nonce, password |-> password,
                nonce_str |-> digest_to_hex32(nonce),
                pass_with_nonce_len |-> Len(password) + 8,
                digested |-> SubSeq(pass_with_nonce(nonce, password), 1,
                                    Len(password) + 8),
                response |-> get_password_response(nonce, password)]
    /\ UNCHANGED fnUnchanged

\* The 16 bytes a client sends after the newline in the replies parsed
\* alone: the response, the response wrong in its first, a middle or its
\* last byte, or 16 newlines.
FnDigests(expected) ==
    {expected} \cup {Corrupt(expected, p) : p \in {1, 8, PROXY_PASS_RES_LEN}}
    \cup {[j \in 1 .. PROXY_PASS_RES_LEN |-> 10]}

FnReplies(expected) ==
    {c \o <<10>> \o d :
        c \in UNION {FnCallBytes(n) : n \in 0 .. MaxCallLen},
        d \in FnDigests(expected)}

\* The response expected in the replies parsed alone.
FnResponse == get_password_response(<<4660, 22136>>, Password)

\* proxy_worker_authorize from the first conn_recv to the comparison of the
\* response, for one reply: the index of the newline, the bytes taken from
\* the socket, the callsign recorded (none when the scan fails), the length
\* of buff that was written, and the result of the comparison.
ParseReply(reply, expected) ==
    /\ call.fn = "none"
    /\ LET k == scan_newline(buff_first(reply), 0) IN
       call' = IF scan_failed(k)
               THEN [fn |-> "proxy_worker_authorize", reply |-> reply,
                     response |-> expected, idx |-> k, consumed |-> 16,
                     callsign |-> <<>>, buff_len |-> 16, matches |-> FALSE,
                     ret |-> EINVAL]
               ELSE LET buff == buff_second(reply, k)
                        matches == response_matches(expected, buff, k + 1, 0)
                    IN [fn |-> "proxy_worker_authorize", reply |-> reply,
                        response |-> expected, idx |-> k,
                        consumed |-> 16 + (k + 1),
                        callsign |-> callsign_field(buff_first(reply), k),
                        buff_len |-> Len(buff), matches |-> matches,
                        ret |-> IF matches THEN OK ELSE EACCES]
    /\ UNCHANGED fnUnchanged

\* An address the configuration leaves unset (a NULL char pointer).
NoAddr == "NULL"

\* The wildcard address proxy_load_conf refuses beside additional ones.
Wildcard == "0.0.0.0"

\* The values of ExternalBindAddress and of the entries of
\* AdditionalExternalBindAddresses.
Addrs == {"192.0.2.1", "192.0.2.2"}

ExtAddrs == {NoAddr, Wildcard} \cup Addrs

AddLists == UNION {[1 .. n -> Addrs \cup {Wildcard}] : n \in 0 .. MaxBinds}

\* proxy_load_conf after conf_parse_file: additional external addresses
\* need an ExternalBindAddress that is set and is not the wildcard.
proxy_load_conf(bind_addr_ext, bind_addr_ext_add) ==
    IF bind_addr_ext_add # <<>>
       /\ (bind_addr_ext = NoAddr \/ bind_addr_ext = Wildcard)
    THEN EINVAL
    ELSE OK

\* proxy_open: priv->num_clients = 1 + ph->conf.bind_addr_ext_add_len
open_num_clients(bind_addr_ext_add) == 1 + Len(bind_addr_ext_add)

\* proxy_open: clients[0].source_addr = conf.bind_addr_ext and
\* clients[i].source_addr = conf.bind_addr_ext_add[i - 1] for i >= 1 (the
\* sequence bind_addr_ext_add is indexed from 1).
open_source_addr(bind_addr_ext, bind_addr_ext_add) ==
    [i \in Array(open_num_clients(bind_addr_ext_add)) |->
        IF i = 0 THEN bind_addr_ext ELSE bind_addr_ext_add[i]]

\* A successful proxy_open: the two arrays it allocates and the source
\* address of every slot. The configuration in ph->conf is one that
\* proxy_load_conf took (loaded), or one the host put into ph->conf itself
\* or kept after proxy_load_conf returned an error; proxy_open reads
\* ph->conf as it is.
OpenSlots(bind_addr_ext, bind_addr_ext_add, loaded) ==
    /\ call.fn = "none"
    /\ loaded => proxy_load_conf(bind_addr_ext, bind_addr_ext_add) = OK
    /\ call' = [fn |-> "proxy_open",
                loaded |-> loaded,
                load_ret |-> proxy_load_conf(bind_addr_ext, bind_addr_ext_add),
                bind_addr_ext |-> bind_addr_ext,
                bind_addr_ext_add |-> bind_addr_ext_add,
                num_clients |-> open_num_clients(bind_addr_ext_add),
                clients |-> Array(open_num_clients(bind_addr_ext_add)),
                client_workers |->
                    Array(open_num_clients(bind_addr_ext_add)),
                source_addr |->
                    open_source_addr(bind_addr_ext, bind_addr_ext_add)]
    /\ UNCHANGED fnUnchanged

NextFn ==
    \/ \E reply \in FnReplies(FnResponse) : ParseReply(reply, FnResponse)
    \/ \E denied \in OptPatterns, allowed \in OptPatterns, c \in Callsigns,
          deny_engine \in EngineResults, allow_engine \in EngineResults :
           AuthorizeCallsign(denied, allowed, c, deny_engine, allow_engine)
    \/ \E nonce \in FnNonces, password \in FnPasswords :
           PasswordResponse(nonce, password)
    \/ \E bind_addr_ext \in ExtAddrs, bind_addr_ext_add \in AddLists,
          loaded \in BOOLEAN :
           OpenSlots(bind_addr_ext, bind_addr_ext_add, loaded)

SpecFn == Init /\ [][NextFn]_vars

\* ----------------------------------------------------------------- claims

\* The acceptor is about to call proxy_worker_accept on worker ai.
AcceptorProbes == apc = "probe_call"

\* Worker i is driving a slot: it runs proxy_conn_process or
\* proxy_conn_finish on clients[s].
Drives(i, s) == wpc[i] \in {"process", "finish"} /\ wslot[i] = s

\* No two workers hold the same connection.
NoTwoOwners ==
    \A i, j \in DOMAIN conn_client :
        i # j /\ conn_client[i] # NULL => conn_client[i] # conn_client[j]

\* A change of worker i's conn_client is null -> the acceptor's connection,
\* by the acceptor probing worker i, or connection -> null, by worker i
\* where it frees its connection.
HandoffTransition(i) ==
    conn_client'[i] # conn_client[i] =>
        \/ /\ conn_client[i] = NULL
           /\ AcceptorProbes /\ ai = i
           /\ conn_client'[i] = aconn
        \/ /\ conn_client[i] # NULL
           /\ conn_client'[i] = NULL
           /\ wpc[i] \in {"auth_fail", "exit"}
           /\ wpc'[i] # wpc[i]

\* proxy_worker_accept on a worker that holds a connection returns -EBUSY
\* and changes no conn_client.
BusyRefused ==
    (AcceptorProbes /\ apc' # apc /\ conn_client[ai] # NULL) =>
        /\ conn_client' = conn_client
        /\ aret' = EBUSY
        /\ apc' = "probe_chk"

\* C1: the accept handoff never overwrites a connection. Every change of a
\* worker's conn_client is either null -> the acceptor's new connection, made
\* by the acceptor's proxy_worker_accept on that worker, or connection ->
\* null, made by that worker where it frees its connection; a
\* proxy_worker_accept on a worker that holds a connection returns -EBUSY
\* and changes no conn_client; and no two workers hold the same connection.
C1_AcceptHandoff ==
    /\ []NoTwoOwners
    /\ [][/\ BusyRefused
          /\ \A i \in DOMAIN conn_client \cap DOMAIN conn_client' :
                 HandoffTransition(i)]_vars

\* C1's case: the acceptor has just been refused by worker 0, which holds a
\* connection, and goes on to the next worker with its own connection.
C1_Witness ==
    /\ apc = "probe_chk"
    /\ ai = 1
    /\ aret = EBUSY
    /\ conn_client[0] # NULL
    /\ aconn # NULL
    /\ aconn # conn_client[0]

\* C2: a slot serves one client at a time: no two workers drive the same
\* slot.
C2_OneWorkerPerSlot ==
    \A s \in Index : Cardinality({i \in Index : Drives(i, s)}) <= 1

\* C3: usable_clients is 0 whenever the proxy is not started (before start,
\* after a start that returned an error, after shutdown has returned) and
\* is num_clients from a successful start to the next shutdown; stated
\* between the lifecycle calls.
C3_UsableByPhase ==
    cpc = "ready" =>
        /\ phase \in {"init", "opened", "start_failed", "down"} =>
               usable_clients = 0
        /\ phase = "started" => usable_clients = num_clients

\* usable_clients is within 0 .. num_clients.
UsableInRange == 0 <= usable_clients /\ usable_clients <= num_clients

\* A change of usable_clients is proxy_start's, to num_clients, or
\* proxy_shutdown's, to 0.
UsableChange ==
    usable_clients' # usable_clients =>
        \/ /\ phase = "opened" /\ phase' # "opened"
           /\ usable_clients' = num_clients
        \/ /\ cpc = "sd_write"
           /\ usable_clients' = 0

\* C4: usable_clients stays within 0 .. num_clients, and the only step that
\* raises it is proxy_start; every other change, shutdown's, lowers it to 0,
\* so no worker, acceptor or close step raises it after a shutdown.
C4_UsableBounded == []UsableInRange /\ [][UsableChange]_vars

\* C4's case: shutdown has lowered usable_clients to 0 while workers hold
\* connections and the acceptor is about to probe.
C4_Witness ==
    /\ phase = "started"
    /\ cpc = "sd_update"
    /\ usable_clients = 0
    /\ num_clients = 2
    /\ conn_client[0] # NULL
    /\ apc = "probe_lock"

\* C5: after shutdown the system quiesces. An accept blocked on the
\* listener that was shut down returns; and once proxy_close is called,
\* every worker returns to idle with no connection, whatever it was doing,
\* and proxy_close completes.
C5_Quiesces ==
    /\ (apc = "accept" /\ conn_listen = "shutdown") ~> (apc = "idle")
    /\ (closing /\ cpc = "sd_write") ~>
           (/\ cpc = "ready"
            /\ phase = "init"
            /\ \A i \in Index : wpc[i] = "idle")

\* While usable_clients is 0 no step gives a worker a connection and no
\* step reserves a slot.
NoHandoffStep ==
    usable_clients = 0 =>
        /\ \A i \in DOMAIN conn_client \cap DOMAIN conn_client' :
               conn_client[i] = NULL => conn_client'[i] = NULL
        /\ \A i \in DOMAIN in_use \cap DOMAIN in_use' :
               ~in_use[i] => ~in_use'[i]

\* C6: while usable_clients is 0, which it is from shutdown's write on, no
\* step hands a connection to a worker and no step reserves a slot.
C6_NoHandoffAfterShutdown == [][NoHandoffStep]_vars

\* C6's case: shutdown has written 0 and not yet returned; the acceptor
\* holds an accepted connection it has yet to probe with, and a worker that
\* was authorizing is about to search for a slot.
C6_Witness ==
    /\ phase = "started"
    /\ cpc \in {"sd_update", "sd_listen"}
    /\ usable_clients = 0
    /\ apc = "probe_lock"
    /\ \E i \in Index : wpc[i] = "search_lock"

\* The acceptor leaves the probe loop with no worker left to probe: the
\* connection is freed, no conn_client changes, proxy_process returns 0.
\* It leaves a handoff with another error: the connection is freed and that
\* error is returned.
ProbeExitStep ==
    /\ (apc = "probe_chk" /\ ~(ai < usable_clients) /\ apc' = "idle") =>
           /\ conn_state'[aconn] = "freed"
           /\ conn_client' = conn_client
           /\ proc_ret' = OK
    /\ (apc = "probe_call" /\ apc' = "idle" /\ proc_ret' # OK) =>
           /\ conn_state'[aconn] = "freed"
           /\ conn_client' = conn_client
           /\ proc_ret' \notin {OK, EBUSY}

\* C7: when the acceptor leaves the probe loop because there is no worker
\* left to probe (every worker 0 .. usable_clients - 1 was busy), it closes
\* and frees the connection, no conn_client changes and proxy_process
\* returns 0; when a handoff fails with another error, the connection is
\* closed and freed and that error is returned.
C7_AllBusyDropped == [][ProbeExitStep]_vars

\* The 16 bytes that follow the newline in a client's reply whose newline
\* is at index k.
ReplyDigest(reply, k) == SubSeq(reply, k + 2, k + 17)

\* Worker i takes the step that completes the reply: the second conn_recv
\* succeeds.
ReplyCompleted(i) ==
    wpc[i] = "auth_recv2" /\ rx'[i] = 16 + idx[i] + 1

\* Worker i leaves a failed authorization: the connection is closed and
\* freed, conn_client is null, the worker is idle, no slot was reserved.
DropsClient(i) ==
    (wpc[i] = "auth_fail" /\ wpc'[i] # "auth_fail") =>
        /\ wpc'[i] = "idle"
        /\ conn_client'[i] = NULL
        /\ conn_state'[conn_client[i]] = "freed"
        /\ in_use' = in_use
        /\ slot_client' = slot_client

\* Worker i's step on a reply whose digest is wrong, and its way out.
WrongPasswordStep(i) ==
    /\ (ReplyCompleted(i) /\ ReplyDigest(wreply[i], idx[i]) # response[i]) =>
           /\ tx'[i] = Append(tx[i], <<7, 0, 0, 0, 0, 1, 0, 0, 0, 1>>)
           /\ Len(tx[i]) = 1
           /\ authz'[i] = -1
           /\ wpc'[i] = "auth_fail"
           /\ in_use' = in_use
    /\ DropsClient(i)

\* C8: wrong password. When the 16 bytes after the newline differ from the
\* expected digest, the worker sends exactly 07 00 00 00 00 01 00 00 00 01
\* after the nonce, without consulting the callsign check, and fails the
\* authorization; it then closes the connection and returns to idle with no
\* slot reserved and without running the relay.
C8_WrongPassword == [][\A i \in Index : WrongPasswordStep(i)]_vars

\* C8's case: a denied callsign with a wrong digest got the bad-password
\* frame.
C8_Witness ==
    \E i \in Index :
        /\ wpc[i] = "auth_fail"
        /\ callsign[i] = BAD1
        /\ re_calls_denied = {{BAD1}}
        /\ Len(tx[i]) = 2
        /\ tx[i][2] = msg_bad_pw

\* Worker i's step on a reply whose digest is right and whose callsign is
\* not authorized, and the way out of every worker so refused.
DeniedCallsignStep(i) ==
    /\ (/\ ReplyCompleted(i)
        /\ ReplyDigest(wreply[i], idx[i]) = response[i]
        /\ authz'[i] # 1) =>
           /\ tx'[i] = Append(tx[i], <<7, 0, 0, 0, 0, 1, 0, 0, 0, 2>>)
           /\ Len(tx[i]) = 1
           /\ authz'[i] = 0
           /\ wpc'[i] = "auth_fail"
           /\ in_use' = in_use
    /\ (wpc[i] = "auth_fail" /\ authz[i] = 0 => DropsClient(i))

\* C9: denied callsign. When the digest matches and
\* proxy_authorize_callsign does not return 1, the worker sends exactly
\* 07 00 00 00 00 01 00 00 00 02 after the nonce and fails the
\* authorization; it then closes the connection and returns to idle with no
\* slot reserved.
C9_DeniedCallsign == [][\A i \in Index : DeniedCallsignStep(i)]_vars

\* C9's case: the callsign on the deny list, with the right digest, got
\* the not-authorized frame.
C9_Witness ==
    \E i \in Index :
        /\ wpc[i] = "auth_fail"
        /\ callsign[i] = BAD1
        /\ re_calls_denied = {{BAD1}}
        /\ authz[i] = 0
        /\ Len(tx[i]) = 2
        /\ tx[i][2] = msg_bad_auth

\* The pattern behind a regex handle matches callsign c.
Matches(re, c) == c \in UNION re

\* C10: when the regex engine decides both matches, proxy_authorize_callsign
\* returns 1 iff (no deny regex, or it does not match the callsign) and (no
\* allow regex, or it matches the callsign), and 0 otherwise.
C10_AllowIff ==
    (/\ call.fn = "proxy_authorize_callsign"
     /\ call.deny_engine >= 0
     /\ call.allow_engine >= 0) =>
        /\ call.ret \in {0, 1}
        /\ call.ret = 1 <=>
               /\ call.denied = NoRe \/ ~Matches(call.denied, call.callsign)
               /\ call.allowed = NoRe \/ Matches(call.allowed, call.callsign)

\* C10's case: both regexes present, the callsign matched by the allow regex
\* and not by the deny regex, and the call returned 1.
C10_Witness ==
    /\ call.fn = "proxy_authorize_callsign"
    /\ call.deny_engine >= 0
    /\ call.allow_engine >= 0
    /\ call.denied = {{BAD1}}
    /\ call.allowed = {{W1AW}}
    /\ call.callsign = W1AW
    /\ call.ret = 1

\* The regex engine fails on a regex that is present.
DenyEngineFails == call.denied # NoRe /\ call.deny_engine < 0

AllowEngineFails == call.allowed # NoRe /\ call.allow_engine < 0

\* C11, as claimed: an engine failure counts as no match for either regex,
\* so a failure of the deny regex alone does not deny the callsign and a
\* failure of the allow regex denies it.
C11_EngineFailureNoMatch ==
    (/\ call.fn = "proxy_authorize_callsign"
     /\ DenyEngineFails \/ AllowEngineFails) =>
        (call.ret = 1 <=>
            /\ \/ call.denied = NoRe
               \/ DenyEngineFails
               \/ ~Matches(call.denied, call.callsign)
            /\ \/ call.allowed = NoRe
               \/ (~AllowEngineFails /\ Matches(call.allowed, call.callsign)))

\* C11, amended: an engine failure on a regex that is present denies the
\* callsign, whichever regex it is: proxy_authorize_callsign returns 0.
C11_EngineFailureDenies ==
    (/\ call.fn = "proxy_authorize_callsign"
     /\ DenyEngineFails \/ AllowEngineFails) =>
        call.ret = 0

\* C11's case: only a deny regex, which does not name the callsign, and the
\* engine fails on it: the call returned 0.
C11_Witness ==
    /\ call.fn = "proxy_authorize_callsign"
    /\ call.denied = {{BAD1}}
    /\ call.allowed = NoRe
    /\ call.callsign = W1AW
    /\ call.deny_engine < 0
    /\ call.ret = 0

\* The value of a lowercase hex character, -1 for any other byte.
HexDigit(c) ==
    IF c \in 48 .. 57 THEN c - 48
    ELSE IF c \in 97 .. 102 THEN c - 87
    ELSE -1

\* The number that a string of hex characters writes, high digit first.
RECURSIVE HexValue(_)
HexValue(str) ==
    IF str = <<>> THEN 0
    ELSE 16 * HexValue(SubSeq(str, 1, Len(str) - 1)) + HexDigit(str[Len(str)])

\* C12: the bytes digested for the expected response are the password with
\* each byte in 0x61 .. 0x7A lowered by 0x20 and every other byte as it is,
\* followed by the 8 lowercase hex characters of the nonce; there are
\* len(P) + 8 of them, and the same 8 characters are sent as the nonce.
C12_DigestedString ==
    call.fn = "get_password_response" =>
        /\ call.pass_with_nonce_len = Len(call.password) + 8
        /\ Len(call.digested) = Len(call.password) + 8
        /\ \A k \in 1 .. Len(call.password) :
               call.digested[k] =
                   IF call.password[k] \in 97 .. 122
                   THEN call.password[k] - 32 ELSE call.password[k]
        /\ SubSeq(call.digested, Len(call.password) + 1,
                  Len(call.password) + 8) = call.nonce_str
        /\ Len(call.nonce_str) = 8
        /\ \A k \in 1 .. 8 : HexDigit(call.nonce_str[k]) >= 0
        /\ HexValue(SubSeq(call.nonce_str, 1, 4)) = call.nonce[1]
        /\ HexValue(SubSeq(call.nonce_str, 5, 8)) = call.nonce[2]

\* C12's case: the password "a" followed by a byte that is not ASCII, with
\* the nonce 0xABCDEF01: "A", that byte, "abcdef01" are digested.
C12_Witness ==
    /\ call.fn = "get_password_response"
    /\ call.password = <<97, 225>>
    /\ call.nonce = <<43981, 61185>>
    /\ call.digested = <<65, 225, 97, 98, 99, 100, 101, 102, 48, 49>>
    /\ call.nonce_str = <<97, 98, 99, 100, 101, 102, 48, 49>>

\* The index of the first newline of a reply (0-based); Len(reply) if none.
FirstNewline(reply) ==
    IF \E n \in 1 .. Len(reply) : reply[n] = 10
    THEN (CHOOSE n \in 1 .. Len(reply) :
              /\ reply[n] = 10
              /\ \A m \in 1 .. (n - 1) : reply[m] # 10) - 1
    ELSE Len(reply)

\* What the parse of a reply with its first newline at index k <= 10 takes
\* from the socket and compares, and the room it needs.
ParseReads(k) ==
    /\ call.idx = k
    /\ call.consumed = k + 1 + 16
    /\ call.matches <=> SubSeq(call.reply, k + 2, k + 17) = call.response
    /\ call.buff_len <= 28
    /\ Len(call.callsign) + 1 <= 12

\* C13, as claimed: for a reply whose first newline is at index k <= 10,
\* k + 1 + 16 bytes are consumed, the callsign is the k bytes before the
\* newline, the 16 bytes compared with the expected digest are those that
\* follow the newline, and buff (28 bytes) and the callsign field (12
\* bytes) are not overrun.
C13_ReplyParsing ==
    (call.fn = "proxy_worker_authorize" /\ FirstNewline(call.reply) <= 10) =>
        /\ ParseReads(FirstNewline(call.reply))
        /\ call.callsign = SubSeq(call.reply, 1, FirstNewline(call.reply))

\* The bytes of str before its first NUL; all of str if it has none.
BeforeNul(str) ==
    IF \E n \in 1 .. Len(str) : str[n] = 0
    THEN SubSeq(str, 1, (CHOOSE n \in 1 .. Len(str) :
                             /\ str[n] = 0
                             /\ \A m \in 1 .. (n - 1) : str[m] # 0) - 1)
    ELSE str

\* C13, amended: the same, but the callsign recorded is the part of the k
\* bytes before the newline that precedes their first NUL byte, which is
\* all k bytes when none of them is NUL.
C13_ReplyParsingToNul ==
    (call.fn = "proxy_worker_authorize" /\ FirstNewline(call.reply) <= 10) =>
        /\ ParseReads(FirstNewline(call.reply))
        /\ call.callsign =
               BeforeNul(SubSeq(call.reply, 1, FirstNewline(call.reply)))

\* C13's case: a reply with 10 letters before the newline and the right
\* response: 27 bytes are consumed and the response matches.
C13_Witness ==
    /\ call.fn = "proxy_worker_authorize"
    /\ call.idx = 10
    /\ call.consumed = 27
    /\ call.callsign = [j \in 1 .. 10 |-> 65]
    /\ call.matches
    /\ call.buff_len = 27

\* Worker i's step on a first read with no newline in its first 11 bytes,
\* and its way out of the authorization that failed so.
MalformedStep(i) ==
    /\ (/\ wpc[i] = "auth_recv"
        /\ rx'[i] = 16
        /\ FirstNewline(wreply'[i]) > 10) =>
           /\ wret'[i] = EINVAL
           /\ wpc'[i] = "auth_fail"
           /\ tx' = tx
           /\ callsign' = callsign
    /\ (wpc[i] = "auth_fail" /\ wret[i] = EINVAL) =>
           /\ rx[i] = 16
           /\ Len(tx[i]) = 1
           /\ callsign[i] = <<>>
           /\ DropsClient(i)

\* C14: malformed auth. If none of the first 11 bytes of the reply is a
\* newline, authorization fails with -EINVAL with only the 16 bytes of the
\* first read taken, no frame sent after the nonce and no callsign
\* recorded; the worker then closes the connection and returns to idle.
C14_MalformedAuth == [][\A i \in Index : MalformedStep(i)]_vars

\* C14's case: a reply whose newline is its twelfth byte was refused with
\* -EINVAL.
C14_Witness ==
    \E i \in Index :
        /\ wpc[i] = "auth_fail"
        /\ wret[i] = EINVAL
        /\ FirstNewline(wreply[i]) = 11
        /\ conn_client[i] # NULL

\* The positions of a worker run that has its client's connection and has
\* yet to free it.
InRun == {"auth_send", "auth_recv", "auth_recv2", "auth_fail", "update",
          "search_lock", "search_chk", "search_call", "process", "finish",
          "exit"}

\* A worker inside a run holds a connection that is not freed.
RunHoldsSocket ==
    \A i \in Index :
        wpc[i] \in InRun =>
            /\ conn_client[i] # NULL
            /\ conn_state[conn_client[i]] # "freed"

\* Worker i's connection is taken from it only by freeing it, once, and
\* every way out of a run does so.
FreedOnce(i) ==
    /\ (conn_client[i] # NULL /\ conn_client'[i] # conn_client[i]) =>
           /\ conn_state[conn_client[i]] # "freed"
           /\ conn_state'[conn_client[i]] = "freed"
           /\ conn_client'[i] = NULL
    /\ (wpc[i] \in InRun /\ wpc'[i] \notin InRun) =>
           conn_state'[conn_client[i]] = "freed"
    /\ \A c \in Conns : conn_state[c] = "freed" => conn_state'[c] = "freed"

\* C15, as claimed: on every exit path of a worker run the client's
\* connection is closed and freed exactly once, and conn_client is null
\* when the worker returns to idle.
C15_SocketFreedOnce ==
    /\ []RunHoldsSocket
    /\ [][\A i \in DOMAIN conn_client \cap DOMAIN conn_client' :
              /\ FreedOnce(i)
              /\ (wpc[i] # "idle" /\ wpc'[i] = "idle") =>
                     conn_client'[i] = NULL]_vars

\* C15, amended: the same, but when the worker returns to idle conn_client
\* is null or is a new connection, open, that the acceptor stored after the
\* run's connection was freed and for which it woke the worker again.
C15_SocketFreedOnceOrNew ==
    /\ []RunHoldsSocket
    /\ [][\A i \in DOMAIN conn_client \cap DOMAIN conn_client' :
              /\ FreedOnce(i)
              /\ (wpc[i] # "idle" /\ wpc'[i] = "idle") =>
                     \/ conn_client'[i] = NULL
                     \/ /\ woken'[i]
                        /\ conn_state'[conn_client'[i]] = "open"]_vars

\* C15's case: worker i has freed its connection on the way out of a run
\* whose slot refused the client, and before it returns the acceptor has
\* stored a new connection in conn_client.
C15_Witness ==
    \E i \in Index :
        /\ wpc[i] = "update_exit"
        /\ wret[i] \notin {OK, EBUSY}
        /\ conn_client[i] # NULL
        /\ woken[i]
        /\ \E c \in Conns : conn_state[c] = "freed"

\* A worker that drove a slot leaves it through proxy_conn_finish, which
\* leaves the slot not in use.
SessionEndStep(i) ==
    /\ (wpc[i] = "process" /\ wpc'[i] # "process") => wpc'[i] = "finish"
    /\ (wpc[i] = "finish" /\ wpc'[i] # "finish") =>
           /\ wpc'[i] = "exit"
           /\ ~in_use'[wslot[i]]

\* C16: after a session ends, normally or by error, its slot has in_use =
\* false before its worker is idle again: the worker leaves the relay loop
\* only through proxy_conn_finish, which clears in_use, and in every state
\* where all workers are idle no slot is in use.
C16_SlotFreeAfterSession ==
    /\ []((\A i \in Index : wpc[i] = "idle") =>
              \A n \in DOMAIN in_use : ~in_use[n])
    /\ [][\A i \in Index : SessionEndStep(i)]_vars

\* C16's case: a worker has served a client on slot 1 and is on its way
\* out; the slot is not in use.
C16_Witness ==
    \E i \in Index :
        /\ wpc[i] = "update_exit"
        /\ wslot[i] = 1
        /\ wret[i] = OK
        /\ ~in_use[1]

\* ------------------------------------------------------------------- C17

\* No worker is between two steps of a connection and the host is in no
\* call: every worker waits for a connection or serves its session.
Settled ==
    /\ phase = "started"
    /\ cpc = "ready"
    /\ \A i \in Index : wpc[i] \in {"idle", "process"}

\* C17: after a slot accepted an authorized client the registration
\* update is called, so that while the session is served the registration
\* collaborator has the new occupancy (used counts that slot, total =
\* usable_clients); an update with the values after the transition follows
\* every change of a slot's in_use or of usable_clients. Hence, whenever
\* no worker and no host call is under way, the pair last given to the
\* registration is the current <<slots in use, usable_clients>>.
C17_RegistrationObserves ==
    Settled => reg = proxy_update_registration(in_use, usable_clients)

\* ------------------------------------------------------------------- C18

\* The step is a proxy_open that returns an error.
OpenFails == \E fail \in OpenSteps \ {"none"} : proxy_open(fail)

\* What a failed open leaves: no slot and no worker array, num_clients = 0,
\* and no regex handle that this open created.
OpenReleased ==
    /\ num_clients' = 0
    /\ conn_client' = <<>> /\ callsign' = <<>>
    /\ in_use' = <<>> /\ slot_client' = <<>>
    /\ conn_listen' = "closed"
    /\ re_calls_allowed = NoRe => re_calls_allowed' = NoRe
    /\ re_calls_denied = NoRe => re_calls_denied' = NoRe

\* C18: when proxy_open fails at any step (an array allocation, the log,
\* the allow or deny regex, a slot init, a worker init, the listen),
\* everything it acquired is released before it returns: the slot and
\* worker arrays are freed and null, num_clients is 0, and both regex
\* handles this open created are freed and null.
C18_OpenFailureReleases == [][OpenFails => OpenReleased]_vars

\* ------------------------------------------------------------------- C19

\* The step is a proxy_start that returns an error.
StartFails == \E fail \in StartSteps \ {"none"} : proxy_start(fail)

\* What a failed start leaves: no worker thread runs, the slots and the
\* listener are as open left them, and no slot is usable.
StartRolledBack ==
    /\ \A i \in Index : ~thread'[i]
    /\ UNCHANGED <<num_clients, arrayVars, conn_listen, woken, wpc>>
    /\ usable_clients' = usable_clients
    /\ usable_clients' = 0

\* C19: when proxy_start fails at any step (a slot relay start, a worker
\* start, the registration service start) the rollback is full: every
\* worker that was started is joined, every slot relay is stopped, and the
\* proxy is in the not-started state it had before the call, with
\* usable_clients = 0.
C19_StartFailureRollsBack == [][StartFails => StartRolledBack]_vars

\* ------------------------------------------------------------------- C20

\* The number K of additional external bind addresses of the open.
AddLen == Len(call.bind_addr_ext_add)

\* C20: after a successful open of a configuration with K additional
\* external bind addresses there are exactly K + 1 slots and K + 1
\* workers, slot 0 has source_addr = bind_addr_ext, slot i (1 <= i <= K)
\* has source_addr = bind_addr_ext_add[i-1], and the source_addr values of
\* the slots are pairwise distinct.
C20_SlotPerAddress ==
    call.fn = "proxy_open" =>
        /\ call.num_clients = AddLen + 1
        /\ Cardinality(call.clients) = AddLen + 1
        /\ Cardinality(call.client_workers) = AddLen + 1
        /\ call.source_addr[0] = call.bind_addr_ext
        /\ \A i \in 1 .. AddLen :
               call.source_addr[i] = call.bind_addr_ext_add[i]
        /\ \A i, j \in call.clients :
               i # j => call.source_addr[i] # call.source_addr[j]

\* ------------------------------------------------------------------- C21

\* The configuration has additional external bind addresses while
\* bind_addr_ext is unset or the wildcard.
InvalidBinds ==
    /\ call.bind_addr_ext_add # <<>>
    /\ call.bind_addr_ext \in {NoAddr, Wildcard}

\* C21: with a non-empty bind_addr_ext_add and bind_addr_ext unset or
\* 0.0.0.0, open fails: the proxy never has its slots allocated for such a
\* configuration, whichever way the configuration got into ph->conf.
C21_InvalidBindsNeverOpen ==
    call.fn = "proxy_open" => ~InvalidBinds

\* ------------------------------------------------------------------- C22

\* The workers whose conn_client is connection c.
Owners(c) == {i \in DOMAIN conn_client : conn_client[i] = c}

\* Connection c was accepted and has not been closed and freed.
Live(c) == conn_state[c] \in {"open", "shutdown"}

\* C22: when proxy_process has returned, every connection a successful
\* accept returned is owned by exactly one worker (it is that worker's
\* conn_client) or was closed and freed; for every value of
\* usable_clients, 0 included.
C22_AcceptedOwnedOrFreed ==
    apc = "idle" => \A c \in Conns : Live(c) => Cardinality(Owners(c)) = 1

\* ------------------------------------------------------------------- C23

\* Worker i starts the relay loop only out of its own proxy_conn_accept
\* that succeeded: the slot was free, now serves the worker's connection,
\* and is the slot the worker drives.
OwnAcceptStep(i) ==
    (wpc[i] # "process" /\ wpc'[i] = "process") =>
        /\ wpc[i] = "search_call"
        /\ wslot'[i] = wi[i]
        /\ ~in_use[wi[i]]
        /\ in_use'[wi[i]]
        /\ slot_client'[wi[i]] = conn_client[i]

\* C23: a worker runs proxy_conn_process and proxy_conn_finish only on a
\* slot for which its own proxy_conn_accept returned success in this run;
\* when the slot search runs with usable_clients = 0 the worker drives no
\* slot.
C23_DrivesOwnSlotOnly == [][\A i \in Index : OwnAcceptStep(i)]_vars

\* ------------------------------------------------------------------- C24

\* The proxy is started and not shut down.
FullyUsable ==
    phase = "started" /\ num_clients > 0 /\ usable_clients = num_clients

\* The workers that hold a slot: authorized, and serving or ending a
\* session.
Serving == {i \in Index : wpc[i] \in {"process", "finish"}}

\* Worker i does not leave its slot search by the "no available slots"
\* branch.
NoStateErrorStep(i) ==
    (FullyUsable /\ wpc[i] \in {"search_chk", "search_call"}
        /\ wpc'[i] = "exit") => wret'[i] # EBUSY

\* C24: while the proxy is started and not shut down (usable_clients =
\* num_clients) the slots in use are never more than the workers past
\* authorization that serve a session, a worker freeing its slot before it
\* clears conn_client; so the search of an authorized worker finds a free
\* slot and the "State error: no available slots" branch is not taken.
C24_NoStateError ==
    /\ [](FullyUsable => slots_used(in_use) <= Cardinality(Serving))
    /\ [][\A i \in Index : NoStateErrorStep(i)]_vars

\* Worker j, authorized while another worker serves slot 0, found slot 0
\* busy and is about to take the free slot 1.
C24_Witness ==
    /\ FullyUsable
    /\ \E i, j \in Index :
           /\ i # j
           /\ wpc[i] = "process" /\ wslot[i] = 0 /\ in_use[0]
           /\ wpc[j] = "search_call" /\ wi[j] = 1 /\ wret[j] = EBUSY
           /\ ~in_use[1]

\* ------------------------------------------------------------------- C25

\* No call of proxy_update_registration is in progress or still to come:
\* the host is in no lifecycle call, the acceptor is not handing a
\* connection over, and every worker waits for its next connection.
Quiescent ==
    /\ cpc = "ready"
    /\ apc \in {"idle", "accept"}
    /\ \A i \in Index : wpc[i] = "idle" /\ ~woken[i] /\ wreg[i] = <<>>
    /\ creg = <<>>

\* C25: registration reports are not stale at quiescence: however the
\* calls of proxy_update_registration by workers, start and shutdown
\* interleave, once none is in progress the last <<slots_used,
\* slots_total>> given to the registration service is the current number
\* of slots in use and the current usable_clients (total = 0 after
\* shutdown).
C25_ReportCurrentAtQuiescence ==
    Quiescent => reg = proxy_update_registration(in_use, usable_clients)

====
